---------------------------- MODULE Spec2Model ----------------------------
(***************************************************************************)
(* A model of steamgrid's artwork pipeline: for every (game, art style)     *)
(* unit of a run, startApplication recovers an existing image               *)
(* (loadExisting), removes the unit's images and backups (removeExisting),  *)
(* downloads an image when none was recovered (DownloadImage /              *)
(* getImageAlternatives), composites the overlays (ApplyOverlay), stores    *)
(* the clean image under the hash of the composited one (backupGame) and    *)
(* writes the composited image to the canonical path.                       *)
(*                                                                         *)
(* Every action changes the grid directory by at most one filesystem        *)
(* operation, so the states of a behaviour are the points "between any two  *)
(* filesystem operations" of a run.  The program is run again and again     *)
(* (StartRun), and may be killed at any point (Cancel).                     *)
(***************************************************************************)
EXTENDS Integers, Sequences, FiniteSets, TLC

(***************************************************************************)
(* Bounds of the model.                                                     *)
(***************************************************************************)
MaxRuns == 2      \* runs of the program in one behaviour
MaxDim == 2       \* pixel widths and heights are drawn from 1..MaxDim
MaxFaults == 1    \* filesystem operations that fail in one behaviour
MaxFrames == 3    \* frames of an animation

(***************************************************************************)
(* Images.  The bytes of an image are abstracted to the base picture they   *)
(* show and the overlays composited on it, oldest first: ov = <<>> is an    *)
(* image no overlay was applied to, and an image with Len(ov) > 1 has had   *)
(* overlays stacked by more than one run.  Nil is Go's nil byte slice.      *)
(***************************************************************************)
NoBase == [name |-> "nil", kind |-> "none"]
Nil == [base |-> NoBase, ov |-> << >>]

\* kind: how the bytes decode: "jpeg", "png" (one frame), "apng", "webp"
\* (animations), "junk" (no image format).
Base(name, kind) == [name |-> name, kind |-> kind]
Clean(b) == [base |-> b, ov |-> << >>]

\* Pictures the user put on disk: a custom image at the canonical path, a
\* file in the override directory "games", an old-style "(original)" backup.
ManualImg == Clean(Base("manual", "png"))
OverrideImg == Clean(Base("override", "png"))
\* A file in the override directory that is no image.
JunkImg == Clean(Base("override", "junk"))
LegacyImg == Clean(Base("legacy", "jpeg"))

IsOverlaid(img) == Len(img.ov) > 0
\* The image ApplyOverlay was given when it produced img.
PreOverlay(img) == [img EXCEPT !.ov = SubSeq(img.ov, 1, Len(img.ov) - 1)]

\* sha256.Sum256 + hex.EncodeToString: the digest names its input (no
\* collisions); it is a value of its own kind, not the bytes themselves.
Sha256(bytes) == [sha |-> bytes]

(***************************************************************************)
(* Art styles: the rows of the artStyles table that the model reads.        *)
(***************************************************************************)
ArtStyles == {"Banner", "Cover", "Hero"}
artStyleExtensions(artStyle) ==
    CASE artStyle = "Banner" -> [idExt |-> "", nameExt |-> ".banner", steamExt |-> "header.jpg"]
      [] artStyle = "Cover" -> [idExt |-> "p", nameExt |-> ".cover", steamExt |-> "library_600x900_2x.jpg"]
      [] OTHER -> [idExt |-> "_hero", nameExt |-> ".hero", steamExt |-> "library_hero.jpg"]

(***************************************************************************)
(* Files.  Every unit owns the files whose names start with its game ID and *)
(* the art style's idExtension; a path of a unit is the directory pattern   *)
(* it belongs to, the hash in its name (backups) and its extension:         *)
(*   "grid"       <gridDir>/<ID><idExt><ext>               canonical file   *)
(*   "originals"  <gridDir>/originals/<ID><idExt> <hash><ext>     backup    *)
(*   "old"        <gridDir>/<ID><idExt> (original)<ext>    legacy backup    *)
(*   "bigpicture" <gridDir>/<ID<<32|0x02000000><ext>       Big Picture copy *)
(*   "games id"   games/<ID><idExt><ext>                   override by ID   *)
(*   "games name" games/<name><nameExt><ext>               override by name *)
(* The files of a unit are a function from its paths that exist to bytes.   *)
(***************************************************************************)
NoHash == Sha256(Nil)
Path(dir, hash, ext) == [dir |-> dir, hash |-> hash, ext |-> ext]
CanonPath(ext) == Path("grid", NoHash, ext)
OldBackupPath(ext) == Path("old", NoHash, ext)
BigPicturePath(ext) == Path("bigpicture", NoHash, ext)
OverrideIDPath(ext) == Path("games id", NoHash, ext)
OverrideNamePath(ext) == Path("games name", NoHash, ext)

\* Extensions in the order filepath.Glob lists names that differ only in
\* their extension (byte order of the names).  "jpg" is the dotless
\* extension DownloadImage falls back to.
ExtOrder == <<".jpeg", ".jpg", ".png", ".webp", "jpg">>
Exts == {ExtOrder[i] : i \in 1..Len(ExtOrder)}
ExtRank(ext) == CHOOSE i \in 1..Len(ExtOrder) : ExtOrder[i] = ext
\* A glob pattern ending in ".*" matches only names with a dot before the
\* extension.
HasDot(ext) == ext # "jpg"

NoFiles == [p \in {} |-> Nil]
WriteFile(files, path, bytes) ==
    [p \in DOMAIN files \cup {path} |-> IF p = path THEN bytes ELSE files[p]]
Remove(files, path) == [p \in DOMAIN files \ {path} |-> files[p]]

\* The names of a set of paths as filepath.Glob returns them: sorted.  Names
\* that differ in the hash are in the order of their hex digests, a fixed
\* order the model does not know: CHOOSE fixes one.
RECURSIVE Sorted(_)
Sorted(S) ==
    IF S = {} THEN << >>
    ELSE LET first == CHOOSE p \in S : \A q \in S : ExtRank(p.ext) <= ExtRank(q.ext)
         IN <<first>> \o Sorted(S \ {first})

\* filepath.Glob(dir/<name>.*), filepath.Glob(dir/<name> *.*)
GlobDot(files, dir) == Sorted({p \in DOMAIN files : p.dir = dir /\ HasDot(p.ext)})
\* filepath.Glob(gridDir/<ID><idExt> (original)*)
GlobOriginal(files) == Sorted({p \in DOMAIN files : p.dir = "old"})

filterForImages(paths) ==
    SelectSeq(paths, LAMBDA p : p.ext \in {".png", ".jpg", ".jpeg"})

(***************************************************************************)
(* The Game fields one unit's processing reads and writes.                  *)
(***************************************************************************)
NewGame(tags) ==
    [Tags |-> tags, ImageExt |-> "", CleanImageBytes |-> Nil,
     OverlayImageBytes |-> Nil, ImageSource |-> ""]

\* loadImage: on success of ReadFile sets the extension, the bytes and the
\* source; on failure (no such file) leaves the game as it is.
loadImage(g, files, sourceName, imagePath) ==
    IF imagePath \in DOMAIN files
    THEN [g EXCEPT !.ImageExt = imagePath.ext,
                   !.CleanImageBytes = files[imagePath],
                   !.ImageSource = sourceName]
    ELSE g

getBackupPathOfClean(g) == Path("originals", Sha256(g.CleanImageBytes), g.ImageExt)

getBackupPath(g) == Path("originals", Sha256(g.OverlayImageBytes), g.ImageExt)

backupGameNoWrite(files, g) == files

\* backupGame when the write succeeds.
backupGame(files, g) ==
    IF g.CleanImageBytes # Nil
    THEN WriteFile(files, getBackupPath(g), g.CleanImageBytes)
    ELSE files

\* removeExisting: the list "all" of paths it is going to remove, images
\* first, then backups.
removeExistingList(files) ==
    filterForImages(GlobDot(files, "grid")) \o filterForImages(GlobDot(files, "originals"))

\* loadExisting without the os.Remove of the legacy backup it loaded.
loadExistingKeepLegacy(files, g0, hasName) ==
    IF GlobDot(files, "games id") # << >>
    THEN [game |-> loadImage(g0, files, "local file in directory 'games'",
                             GlobDot(files, "games id")[1]),
          removed |-> {}]
    ELSE IF hasName /\ GlobDot(files, "games name") # << >>
    THEN [game |-> loadImage(g0, files, "local file in directory games/",
                             GlobDot(files, "games name")[1]),
          removed |-> {}]
    ELSE IF GlobOriginal(files) # << >>
    THEN [game |-> loadImage(g0, files, "legacy backup (now converted)",
                             GlobOriginal(files)[1]),
          removed |-> {}]
    ELSE IF filterForImages(GlobDot(files, "grid")) # << >>
    THEN LET g1 == loadImage(g0, files, "manual customization",
                             filterForImages(GlobDot(files, "grid"))[1])
             g2 == [g1 EXCEPT !.OverlayImageBytes = g1.CleanImageBytes]
             g3 == loadImage(g2, files, "backup", getBackupPath(g2))
         IN [game |-> [g3 EXCEPT !.OverlayImageBytes = Nil], removed |-> {}]
    ELSE [game |-> g0, removed |-> {}]

\* loadExisting: the game after it, and the legacy backup it removes.
loadExisting(files, g0, hasName) ==
    LET overridenIDs == GlobDot(files, "games id")
        overridenNames == GlobDot(files, "games name")
        oldBackups == GlobOriginal(files)
        files0 == filterForImages(GlobDot(files, "grid"))
    IN IF overridenIDs # << >>
       THEN [game |-> loadImage(g0, files, "local file in directory 'games'", overridenIDs[1]),
             removed |-> {}]
       ELSE IF hasName /\ overridenNames # << >>
       THEN [game |-> loadImage(g0, files, "local file in directory games/", overridenNames[1]),
             removed |-> {}]
       ELSE IF oldBackups # << >>
       THEN [game |-> loadImage(g0, files, "legacy backup (now converted)", oldBackups[1]),
             removed |-> {oldBackups[1]}]
       ELSE IF files0 # << >>
       THEN LET g1 == loadImage(g0, files, "manual customization", files0[1])
                \* set as overlay to check for hash in getBackupPath()
                g2 == [g1 EXCEPT !.OverlayImageBytes = g1.CleanImageBytes]
                g3 == loadImage(g2, files, "backup", getBackupPath(g2))
            IN [game |-> [g3 EXCEPT !.OverlayImageBytes = Nil], removed |-> {}]
       ELSE [game |-> g0, removed |-> {}]

(***************************************************************************)
(* The network.  An answer to an HTTP request is a status or a response;    *)
(* a response to an image download carries the Content-Type header, the     *)
(* extension of the URL's path, the body and the size image.Decode finds    *)
(* in it.                                                                   *)
(***************************************************************************)
JpegHeader == [ctype |-> "image/jpeg", urlExt |-> ".jpg", kind |-> "jpeg"]
Headers ==
    { [ctype |-> "image/jpeg", urlExt |-> ".jpg", kind |-> "jpeg"],
      [ctype |-> "image/png", urlExt |-> ".png", kind |-> "png"],
      [ctype |-> "application/octet-stream", urlExt |-> "", kind |-> "png"],
      [ctype |-> "image/webp", urlExt |-> ".webp", kind |-> "webp"],
      [ctype |-> "", urlExt |-> ".jpeg", kind |-> "jpeg"],
      [ctype |-> "", urlExt |-> "", kind |-> "jpeg"],
      [ctype |-> "text/html", urlExt |-> "", kind |-> "junk"] }

Dims == 1..MaxDim
NetNames == {"net"}
Response(hd, n, x, y) ==
    [status |-> "200", ctype |-> hd.ctype, urlExt |-> hd.urlExt,
     body |-> Clean(Base(n, hd.kind)), X |-> x, Y |-> y]
\* The positive answers: every kind of header with a square image, and every
\* size with a JPEG.
Responses ==
    { Response(hd, n, 1, 1) : hd \in Headers, n \in NetNames }
    \cup { Response(JpegHeader, n, x, y) : n \in NetNames, x \in Dims, y \in Dims }
Status(code) ==
    [status |-> code, ctype |-> "", urlExt |-> "", body |-> Nil, X |-> 0, Y |-> 0]
\* What http.Get can answer: a response, 404, another status >= 400, or no
\* answer at all (a transport error).
HttpAnswers == Responses \cup {Status("404"), Status("500"), Status("neterr")}

\* image.Decode of the body: the formats the build registers decode.
Decodes(body) == body.base.kind \in {"jpeg", "png", "apng", "webp"}

\* tryDownload, given the answer to its http.Get: the response only if it
\* was positive, nothing for 404, an error for the rest.
tryDownload(answer) ==
    CASE answer.status = "neterr" -> [response |-> Status("nil"), err |-> "transport error"]
      [] answer.status = "404" -> [response |-> Status("nil"), err |-> ""]
      [] answer.status = "200" -> [response |-> answer, err |-> ""]
      [] OTHER -> [response |-> Status("nil"), err |-> "Failed to download image"]

NoResponse == Status("nil")

\* The extension DownloadImage derives from the response.
ImageExtOf(response) ==
    LET ext0 == IF response.ctype # ""
                THEN CASE response.ctype = "image/jpeg" -> ".jpeg"
                       [] response.ctype = "image/png" -> ".png"
                       [] response.ctype = "image/webp" -> ".webp"
                       [] response.ctype = "application/octet-stream" -> ".octet-stream"
                       [] OTHER -> ".html"
                ELSE IF response.urlExt # "" THEN response.urlExt
                ELSE "jpg"
    IN IF ext0 = ".jpeg" THEN ".jpg"
       ELSE IF ext0 = ".octet-stream" THEN ".png"
       ELSE ext0

\* "catch false aspect ratios": whether DownloadImage drops the image.
GuardRejects(artStyle, X, Y) ==
    \/ artStyle = "Banner" /\ X < Y
    \/ artStyle = "Cover" /\ X > Y

\* DownloadImage after getImageAlternatives returned (response, from, err):
\* the game and DownloadImage's own results.
DownloadImageTail(g, artStyle, response, from, err) ==
    IF response = NoResponse \/ err # ""
    THEN [game |-> g, from |-> "", err |-> err]
    ELSE LET g1 == [g EXCEPT !.ImageExt = ImageExtOf(response)]
         IN IF ~Decodes(response.body)
            THEN [game |-> g1, from |-> "", err |-> "image: unknown format"]
            ELSE IF GuardRejects(artStyle, response.X, response.Y)
            THEN [game |-> g1, from |-> "", err |-> ""]
            ELSE [game |-> [g1 EXCEPT !.ImageSource = from,
                                      !.CleanImageBytes = response.body],
                  from |-> from, err |-> ""]

(***************************************************************************)
(* Overlays.  The tags that have an overlay image for every art style       *)
(* (overlays[tagName+nameExt] exists); other tags have none.                *)
(***************************************************************************)
OverlayTags == {"favorite", "new"}
TagChoices == { << >>, <<"">>, <<"favorite">> }

\* What webpanimation.GetInfo reports for the animated WEBP of the model.
WebpInfo(body) == [Width |-> 1, Height |-> 1, FrameCnt |-> 2]

convertWebpToApngForNoGate(nameExt, convertWebpToApng, convertWebpToApngCoversBanners, maxMem, memNeeded) ==
    \/ convertWebpToApng
    \/ (convertWebpToApngCoversBanners /\ nameExt = ".cover")
    \/ nameExt = ".banner"

\* ApplyOverlay's decision to transcode an animated WEBP into APNG.
convertWebpToApngFor(nameExt, convertWebpToApng, convertWebpToApngCoversBanners, maxMem, memNeeded) ==
    LET convert == \/ convertWebpToApng
                   \/ (convertWebpToApngCoversBanners /\ nameExt = ".cover")
                   \/ nameExt = ".banner"
    IN IF convert /\ maxMem > 0 /\ memNeeded > maxMem THEN FALSE ELSE convert

\* ApplyOverlay: the game after it and its error.  The composited image is
\* the clean one with one more layer, the overlays of the matching tags.
ApplyOverlay(g, nameExt, conv, convCB, maxMem) ==
    LET clean == g.CleanImageBytes
        kind == clean.base.kind
        isWebp == kind = "webp"
        info == WebpInfo(clean)
        convert == convertWebpToApngFor(nameExt, conv, convCB, maxMem,
                       info.Width * info.Height * 4 * info.FrameCnt)
        matched == SelectSeq(g.Tags, LAMBDA t : t \in OverlayTags)
        \* the encoders write nothing for a format none of them is chosen for
        encodes == \/ g.ImageExt \in {".jpg", ".jpeg", ".png"}
                   \/ isWebp
        outKind == IF isWebp /\ convert THEN "apng" ELSE kind
        out == [base |-> [clean.base EXCEPT !.kind = outKind],
                ov |-> IF matched = << >> THEN clean.ov ELSE Append(clean.ov, matched)]
    IN IF clean = Nil \/ g.Tags = << >> THEN [game |-> g, err |-> ""]
       ELSE IF kind = "junk" THEN [game |-> g, err |-> "image: unknown format"]
       ELSE IF matched = << >> /\ ~(isWebp /\ convert) THEN [game |-> g, err |-> ""]
       ELSE IF ~encodes THEN [game |-> g, err |-> ""]
       ELSE [game |-> [g EXCEPT !.OverlayImageBytes = out], err |-> ""]

(***************************************************************************)
(* State.                                                                   *)
(***************************************************************************)
VARIABLES
    units,      \* the (game, art style) units of a run, in processing order
    cfg,        \* the command line flags
    fs,         \* fs[u]: the files of unit u
    tags,       \* tags[u]: game.Tags of unit u in the current run
    run,        \* number of runs started
    pc,         \* where the current run is
    ui,         \* index of the unit being processed
    game,       \* the Game fields of the unit being processed
    all,        \* removeExisting: paths still to remove
    url,        \* getImageAlternatives: url
    from,       \* getImageAlternatives: from
    dimTry,     \* getSteamGridDBImage: loop variable i (0: HQ, 2: LQ)
    steamGridDBApiKey,  \* *steamGridDBApiKey, cleared on a 401
    notFounds,  \* units appended to notFounds in the current run
    memo,       \* memo[u]: the answers the network gave for unit u, in order
    reqNo,      \* requests made for the current unit in the current run
    reqs,       \* history: the calls to providers for the current unit, in order
    log,        \* history: log[u], one entry per run that began unit u
    lastErr,    \* history: the error DownloadImage returned for the current unit
    changed,    \* history: an input (tags, answers) differs from the run before
    faults,     \* history: filesystem operations that failed
    cancelled,  \* history: a run was killed
    job,        \* an image, tags and flags given to ApplyOverlay, frame by frame
    res,        \* what ApplyOverlay made of job
    first       \* history: the outcome of the run over the units in the other order

vars == <<units, cfg, fs, tags, run, pc, ui, game, all, url, from, dimTry,
          steamGridDBApiKey, notFounds, memo, reqNo, reqs, log, lastErr,
          changed, faults, cancelled, job, res, first>>

Unit(id, name, custom, artStyle) ==
    [ID |-> id, Name |-> name, Custom |-> custom, artStyle |-> artStyle]

Flags(skipSteam, skipGoogle, sgdbKey, igdbKey) ==
    [skipSteam |-> skipSteam, skipGoogle |-> skipGoogle,
     steamGridDBApiKey |-> sgdbKey, IGDBApiKey |-> igdbKey,
     onlyMissingArtwork |-> FALSE,
     convertWebpToApng |-> FALSE, convertWebpToApngCoversBanners |-> FALSE,
     maxMem |-> 0]

U == units[ui]
style == U.artStyle
files == fs[ui]
InRun == pc \notin {"idle", "done", "exited"}

(***************************************************************************)
(* The history of a unit in one run: the files it started with, how         *)
(* loadExisting classified what it found, whether ApplyOverlay was called   *)
(* and on which clean image, the files written, and the files at the end.   *)
(***************************************************************************)
LogEntry(start, source) ==
    [start |-> start, source |-> source, applied |-> FALSE, fed |-> Nil,
     failed |-> "", written |-> << >>, finished |-> FALSE, end |-> NoFiles]
Cur == log[ui][Len(log[ui])]
Put(e) == [log EXCEPT ![ui][Len(log[ui])] = e]
\* os.WriteFile(path, bytes) succeeded, over a file that existed or not.
Wrote(e, path, bytes) ==
    [e EXCEPT !.written = Append(@, [path |-> path, bytes |-> bytes,
                                     existed |-> path \in DOMAIN files])]

(***************************************************************************)
(* Network requests.  The answer to the k-th request for a unit is the one  *)
(* given to the k-th request of the previous run when the inputs have not   *)
(* changed (memo), and any answer of the request's kind otherwise.          *)
(***************************************************************************)
Memoized(kind) == reqNo < Len(memo[ui]) /\ memo[ui][reqNo + 1].kind = kind
AnswerOK(kind, answer) == Memoized(kind) => memo[ui][reqNo + 1].answer = answer
Asked(kind, answer) ==
    /\ AnswerOK(kind, answer)
    /\ memo' = IF Memoized(kind) THEN memo
               ELSE [memo EXCEPT ![ui] = Append(SubSeq(@, 1, reqNo),
                                                 [kind |-> kind, answer |-> answer])]
    /\ reqNo' = reqNo + 1
    /\ reqs' = Append(reqs, [kind |-> kind, answer |-> answer, sent |-> TRUE])
\* A call that makes no request (http.Get refuses the URL).
NotAsked(kind) ==
    /\ reqs' = Append(reqs, [kind |-> kind, answer |-> "refused", sent |-> FALSE])
    /\ UNCHANGED <<memo, reqNo>>

(***************************************************************************)
(* The main loop of startApplication.                                       *)
(***************************************************************************)
AuthError == "SteamGridDB authorization token is missing or invalid"

\* The locals of a unit's processing, as they are before a unit starts.
ResetLocals ==
    /\ game' = NewGame(<< >>)
    /\ all' = << >>
    /\ url' = ""
    /\ from' = ""
    /\ dimTry' = 0
    /\ reqNo' = 0

\* The end of the loop body: the next unit, or the end of the run.
NextUnit(e, filesAfter) ==
    /\ log' = Put([e EXCEPT !.finished = TRUE, !.end = filesAfter])
    /\ IF ui < Len(units)
       THEN pc' = "unit" /\ ui' = ui + 1
       ELSE pc' = "done" /\ ui' = ui
    /\ game' = NewGame(<< >>)
    /\ all' = << >>
    /\ url' = ""
    /\ from' = ""
    /\ dimTry' = 0

\* The provider getImageAlternatives turns to, and the value of from there,
\* once IGDB, SteamGridDB, the Steam servers are behind it with url = u.
AfterIGDB(u, f) ==
    IF ~cfg.skipGoogle /\ style = "Banner" /\ u = ""
    THEN [pc |-> "google", from |-> "search"]
    ELSE [pc |-> "fetch", from |-> f]
AfterSGDBAsIGDB(u, f) ==
    IF style = "Cover" /\ cfg.IGDBApiKey # ""
    THEN IF u = "" THEN [pc |-> "igdb_games", from |-> "IGDB"]
         ELSE [pc |-> "fetch", from |-> "IGDB"]
    ELSE AfterIGDB(u, f)
AfterSGDB(u, f) ==
    IF style = "Cover" /\ cfg.IGDBApiKey # "" /\ u = ""
    THEN [pc |-> "igdb_games", from |-> "IGDB"]
    ELSE AfterIGDB(u, f)
\* getSteamGridDBImage skips the request by appID for custom games.
SgdbEntry == IF U.Custom THEN "sgdb_search" ELSE "sgdb_id"
AfterSteam ==
    IF steamGridDBApiKey # ""
    THEN [pc |-> SgdbEntry, from |-> "SteamGridDB"]
    ELSE AfterSGDB("", "steam server")
ResolverEntry ==
    IF ~cfg.skipSteam THEN [pc |-> "steam1", from |-> "steam server"]
    ELSE AfterSteam

\* Where the loop body goes after removeExisting: "Download if missing".
AfterRemove(g) ==
    IF g.ImageSource = "" THEN ResolverEntry
    ELSE [pc |-> "overlay", from |-> ""]

StartRun ==
    /\ pc \in {"idle", "done", "exited"}
    /\ run < MaxRuns
    /\ \E t \in [DOMAIN units -> TagChoices], keep \in BOOLEAN :
         /\ ~keep => \E u \in DOMAIN units : memo[u] # << >>
         /\ tags' = t
         /\ memo' = IF keep THEN memo ELSE [u \in DOMAIN units |-> << >>]
         /\ changed' = (run > 0 /\ (t # tags \/ ~keep))
    /\ run' = run + 1
    /\ pc' = "unit"
    /\ ui' = 1
    /\ steamGridDBApiKey' = cfg.steamGridDBApiKey
    /\ notFounds' = {}
    /\ lastErr' = ""
    /\ reqs' = << >>
    /\ ResetLocals
    /\ UNCHANGED <<first, job, res, units, cfg, fs, log, faults, cancelled>>

\* The process is killed: what it held in memory is gone, the files stay.
Cancel ==
    /\ InRun
    /\ run < MaxRuns
    /\ pc' = "idle"
    /\ cancelled' = TRUE
    /\ ResetLocals
    /\ ui' = 1
    /\ steamGridDBApiKey' = cfg.steamGridDBApiKey
    /\ notFounds' = {}
    /\ lastErr' = ""
    /\ reqs' = << >>
    /\ UNCHANGED <<first, job, res, units, cfg, fs, tags, run, memo, log, changed, faults>>

\* Lines 179-187: clear the game, loadExisting (which removes a legacy backup
\* it loaded), and the globs of removeExisting.
BeginUnit ==
    /\ pc = "unit"
    /\ LET le == loadExisting(files, NewGame(tags[ui]), U.Name # "")
           files1 == IF le.removed = {} THEN files
                     ELSE Remove(files, CHOOSE p \in le.removed : TRUE)
           list == removeExistingList(files1)
           next == AfterRemove(le.game)
       IN /\ game' = le.game
          /\ fs' = [fs EXCEPT ![ui] = files1]
          /\ all' = list
          /\ pc' = IF list = << >> THEN next.pc ELSE "removeExisting"
          /\ from' = IF list = << >> THEN next.from ELSE ""
          /\ log' = [log EXCEPT ![ui] = Append(@, LogEntry(files, le.game.ImageSource))]
    /\ url' = ""
    /\ dimTry' = 0
    /\ reqNo' = 0
    /\ reqs' = << >>
    /\ lastErr' = ""
    /\ UNCHANGED <<first, job, res, units, cfg, tags, run, ui, steamGridDBApiKey, notFounds,
                   memo, changed, faults, cancelled>>

\* removeExisting: one os.Remove of its loop.
RemoveOne ==
    /\ pc = "removeExisting"
    /\ LET next == AfterRemove(game)
       IN \/ /\ fs' = [fs EXCEPT ![ui] = Remove(@, Head(all))]
             /\ all' = Tail(all)
             /\ pc' = IF Tail(all) = << >> THEN next.pc ELSE "removeExisting"
             /\ from' = IF Tail(all) = << >> THEN next.from ELSE ""
             /\ UNCHANGED faults
          \/ \* os.Remove fails: removeExisting returns the error, which is printed
             /\ faults < MaxFaults
             /\ faults' = faults + 1
             /\ all' = << >>
             /\ pc' = next.pc
             /\ from' = next.from
             /\ UNCHANGED fs
    /\ UNCHANGED <<first, job, res, units, cfg, tags, run, ui, game, url, dimTry, steamGridDBApiKey,
                   notFounds, memo, reqNo, reqs, log, lastErr, changed, cancelled>>

(***************************************************************************)
(* DownloadImage and getImageAlternatives, one call that may reach the      *)
(* network per action.                                                      *)
(***************************************************************************)
IsNotFoundNever(g) == FALSE

ErrorPolicyExit(site) == "errorAndExit"

\* What the main loop does with the error a call returns: the error of
\* backupGame goes to errorAndExit, every other one is printed and the loop
\* body goes on.
ErrorPolicy(site) == IF site = "backupGame" THEN "errorAndExit" ELSE "print"

\* errorAndExit: the process ends; what it held in memory is gone.
errorAndExit ==
    /\ pc' = "exited"
    /\ game' = NewGame(<< >>)
    /\ all' = << >>
    /\ url' = ""
    /\ from' = ""
    /\ dimTry' = 0

\* Line 205: the game has no image after "Download if missing".
IsNotFound(g) == g.ImageSource = ""

\* getImageAlternatives returned (response, f, err): the rest of
\* DownloadImage and lines 197-222 of the main loop.
Resolved(response, f, err) ==
    LET d == DownloadImageTail(game, style, response, f, err)
    IN /\ steamGridDBApiKey' = IF d.err = AuthError THEN "" ELSE steamGridDBApiKey
       /\ lastErr' = d.err
       /\ IF d.err # "" /\ ErrorPolicy("DownloadImage") = "errorAndExit"
          THEN /\ errorAndExit
               /\ UNCHANGED <<notFounds, ui, log>>
          ELSE IF IsNotFound(d.game)
          THEN /\ notFounds' = notFounds \cup {ui}
               /\ NextUnit(Cur, files)
          ELSE /\ game' = d.game
               /\ pc' = "overlay"
               /\ UNCHANGED <<notFounds, ui, all, url, from, dimTry, log>>

\* The chain goes on with the provider "next" names, with url = u.
GoOn(next, u) ==
    /\ pc' = next.pc
    /\ from' = next.from
    /\ url' = u
    /\ UNCHANGED <<game, ui, all, dimTry, steamGridDBApiKey, notFounds, log, lastErr>>

ResolverFrame == UNCHANGED <<first, job, res, units, cfg, fs, tags, run, changed, faults, cancelled>>

\* http.Get: a URL without a scheme is refused before any request is made.
HttpGetAnswers(scheme) == IF scheme = "" THEN {Status("neterr")} ELSE HttpAnswers
akamaiURLScheme == "https"
steamCdnURLScheme == ""

\* tryDownload(akamaiURLFormat + steamExtension)
Steam1 ==
    /\ pc = "steam1"
    /\ \E a \in HttpGetAnswers(akamaiURLScheme) :
         LET r == tryDownload(a)
         IN /\ Asked("steam1", a)
            /\ IF r.err = "" /\ r.response # NoResponse
               THEN IF cfg.onlyMissingArtwork
                       THEN Resolved(NoResponse, "", "")
                       ELSE Resolved(r.response, from, "")
               ELSE /\ pc' = "steam2"
                    /\ UNCHANGED <<game, ui, all, url, from, dimTry,
                                   steamGridDBApiKey, notFounds, log, lastErr>>
    /\ ResolverFrame

\* tryDownload(steamCdnURLFormat + steamExtension)
Steam2 ==
    /\ pc = "steam2"
    /\ \E a \in HttpGetAnswers(steamCdnURLScheme) :
         LET r == tryDownload(a)
         IN /\ IF steamCdnURLScheme = "" THEN NotAsked("steam2") ELSE Asked("steam2", a)
            /\ IF r.err = "" /\ r.response # NoResponse
               THEN IF cfg.onlyMissingArtwork
                    THEN Resolved(NoResponse, "", "")
                    ELSE Resolved(r.response, from, "")
               ELSE GoOn(AfterSteam, "")
    /\ ResolverFrame

\* getSteamGridDBImage found nothing for the dimensions of this iteration:
\* the loop goes on with the low quality dimensions, or returns "", nil.
SgdbNextDimensions ==
    IF dimTry = 0
    THEN /\ dimTry' = 2
         /\ pc' = SgdbEntry
         /\ UNCHANGED <<game, ui, all, url, from, steamGridDBApiKey, notFounds,
                        log, lastErr>>
    ELSE GoOn(AfterSGDB("", from), "")

SgdbAnswers == {"401", "404", "malformed", "empty", "url"}

\* steamGridDBGetRequest(baseURL + "/steam/" + game.ID + filter)
SgdbID ==
    /\ pc = "sgdb_id"
    /\ \E a \in SgdbAnswers :
         /\ Asked("sgdb_id", a)
         /\ CASE a = "401" -> Resolved(NoResponse, from, AuthError)
              [] a = "404" -> /\ pc' = "sgdb_search"
                              /\ UNCHANGED <<game, ui, all, url, from, dimTry,
                                             steamGridDBApiKey, notFounds, log, lastErr>>
              [] a = "malformed" -> Resolved(NoResponse, from, "invalid character")
              [] a = "empty" -> SgdbNextDimensions
              [] a = "url" -> GoOn(AfterSGDB("sgdb url", from), "sgdb url")
    /\ ResolverFrame

\* steamGridDBGetRequest(steamGridDBBaseURL + "/search/autocomplete/" + game.Name + filter)
SgdbSearch ==
    /\ pc = "sgdb_search"
    /\ \E a \in (SgdbAnswers \ {"url"}) \cup {"found"} :
         /\ Asked("sgdb_search", a)
         /\ CASE a = "401" -> Resolved(NoResponse, from, AuthError)
              [] a = "404" -> Resolved(NoResponse, from, "404")
              [] a = "malformed" ->
                   Resolved(NoResponse, from, "Best search match doesn't has a requested type or style")
              [] a = "empty" -> GoOn(AfterSGDB("", from), "")
              [] a = "found" -> /\ pc' = "sgdb_game"
                                /\ UNCHANGED <<game, ui, all, url, from, dimTry,
                                               steamGridDBApiKey, notFounds, log, lastErr>>
    /\ ResolverFrame

\* steamGridDBGetRequest(baseURL + "/game/" + SteamGridDBGameID + filter)
SgdbGame ==
    /\ pc = "sgdb_game"
    /\ \E a \in SgdbAnswers :
         /\ Asked("sgdb_game", a)
         /\ CASE a \in {"401", "404"} -> Resolved(NoResponse, from, a)
              [] a = "malformed" -> Resolved(NoResponse, from, "invalid character")
              [] a = "empty" -> SgdbNextDimensions
              [] a = "url" -> GoOn(AfterSGDB("sgdb url", from), "sgdb url")
    /\ ResolverFrame

IgdbAnswers == {"neterr", "malformed", "empty", "found"}

\* igdbPostRequest(igdbGameURL, ...)
IgdbGames ==
    /\ pc = "igdb_games"
    /\ \E a \in IgdbAnswers :
         /\ Asked("igdb_games", a)
         /\ CASE a = "neterr" -> Resolved(NoResponse, from, "transport error")
              [] a \in {"malformed", "empty"} -> GoOn(AfterIGDB("", from), "")
              [] a = "found" -> /\ pc' = "igdb_covers"
                                /\ UNCHANGED <<game, ui, all, url, from, dimTry,
                                               steamGridDBApiKey, notFounds, log, lastErr>>
    /\ ResolverFrame

\* igdbPostRequest(igdbCoverURL, ...)
IgdbCovers ==
    /\ pc = "igdb_covers"
    /\ \E a \in IgdbAnswers :
         /\ Asked("igdb_covers", a)
         /\ CASE a = "neterr" -> Resolved(NoResponse, from, "transport error")
              [] a \in {"malformed", "empty"} -> GoOn(AfterIGDB("", from), "")
              [] a = "found" -> GoOn(AfterIGDB("igdb url", from), "igdb url")
    /\ ResolverFrame

\* getGoogleImage
Google ==
    /\ pc = "google"
    /\ IF U.Name = ""
       THEN /\ NotAsked("google")
            /\ GoOn([pc |-> "fetch", from |-> from], "")
       ELSE \E a \in {"neterr", "empty", "url"} :
              /\ Asked("google", a)
              /\ CASE a = "neterr" -> Resolved(NoResponse, from, "transport error")
                   [] a = "empty" -> GoOn([pc |-> "fetch", from |-> from], "")
                   [] a = "url" -> GoOn([pc |-> "fetch", from |-> from], "search url")
    /\ ResolverFrame

\* The last lines of getImageAlternatives: tryDownload(url).
Fetch ==
    /\ pc = "fetch"
    /\ \E a \in HttpGetAnswers(IF url = "" THEN "" ELSE "https") :
         LET r == tryDownload(a)
         IN /\ IF url = "" THEN NotAsked("fetch") ELSE Asked("fetch", a)
            /\ IF r.err = "" /\ r.response # NoResponse
               THEN Resolved(r.response, from, "")
               ELSE Resolved(NoResponse, "", "")
    /\ ResolverFrame

(***************************************************************************)
(* "Apply overlay" and "Save result".                                       *)
(***************************************************************************)
\* Lines 234-247: ApplyOverlay; its error puts the game among the failed
\* ones, and the loop body goes on all the same.
Overlay ==
    /\ pc = "overlay"
    /\ LET r == ApplyOverlay(game, artStyleExtensions(style).nameExt,
                             cfg.convertWebpToApng, cfg.convertWebpToApngCoversBanners,
                             cfg.maxMem)
       IN /\ game' = IF r.game.OverlayImageBytes # Nil THEN r.game
                     ELSE [r.game EXCEPT !.OverlayImageBytes = r.game.CleanImageBytes]
          \* failed: the message appended to errorMessages with the game
          \* appended to failedGames
          /\ log' = Put([Cur EXCEPT !.applied = TRUE, !.fed = game.CleanImageBytes,
                                    !.failed = r.err])
    /\ pc' = "backupGame"
    /\ UNCHANGED <<first, job, res, units, cfg, fs, tags, run, ui, all, url, from, dimTry,
                   steamGridDBApiKey, notFounds, memo, reqNo, reqs, lastErr,
                   changed, faults, cancelled>>

\* Lines 249-252: backupGame, and errorAndExit when it fails.
Backup ==
    /\ pc = "backupGame"
    /\ \/ /\ fs' = [fs EXCEPT ![ui] = backupGame(@, game)]
          /\ log' = IF getBackupPath(game) \in DOMAIN fs'[ui]
                    THEN Put(Wrote(Cur, getBackupPath(game), game.CleanImageBytes))
                    ELSE log
          /\ pc' = "write"
          /\ UNCHANGED <<faults, game, all, url, from, dimTry>>
       \/ /\ game.CleanImageBytes # Nil
          /\ faults < MaxFaults
          /\ faults' = faults + 1
          /\ IF ErrorPolicy("backupGame") = "errorAndExit"
             THEN errorAndExit
             ELSE pc' = "write" /\ UNCHANGED <<game, all, url, from, dimTry>>
          /\ UNCHANGED <<fs, log>>
    /\ UNCHANGED <<first, job, res, units, cfg, tags, run, ui, steamGridDBApiKey, notFounds,
                   memo, reqNo, reqs, lastErr, changed, cancelled>>

\* One ioutil.WriteFile(path, game.OverlayImageBytes) of lines 254-264: it
\* succeeds, or fails, which is only printed.  e is the log entry after it.
WriteOverlayImage(path, ok, e) ==
    /\ ~ok => faults < MaxFaults
    /\ faults' = IF ok THEN faults ELSE faults + 1
    /\ fs' = IF ok THEN [fs EXCEPT ![ui] = WriteFile(@, path, game.OverlayImageBytes)]
             ELSE fs
    /\ e = IF ok THEN Wrote(Cur, path, game.OverlayImageBytes) ELSE Cur

\* Lines 254-255: the image is written to the canonical path.
WriteImage ==
    /\ pc = "write"
    /\ \E ok \in BOOLEAN, e \in {Cur, Wrote(Cur, CanonPath(game.ImageExt), game.OverlayImageBytes)} :
         /\ WriteOverlayImage(CanonPath(game.ImageExt), ok, e)
         /\ IF style = "Banner"
            THEN /\ pc' = "bigpicture"
                 /\ log' = Put(e)
                 /\ UNCHANGED <<ui, game, all, url, from, dimTry>>
            ELSE NextUnit(e, fs'[ui])
    /\ UNCHANGED <<first, job, res, units, cfg, tags, run, steamGridDBApiKey, notFounds, memo,
                   reqNo, reqs, lastErr, changed, cancelled>>

\* Lines 258-264: the copy with legacy naming for Big Picture mode.
WriteBigPicture ==
    /\ pc = "bigpicture"
    /\ \E ok \in BOOLEAN, e \in {Cur, Wrote(Cur, BigPicturePath(game.ImageExt), game.OverlayImageBytes)} :
         /\ WriteOverlayImage(BigPicturePath(game.ImageExt), ok, e)
         /\ NextUnit(e, fs'[ui])
    /\ UNCHANGED <<first, job, res, units, cfg, tags, run, steamGridDBApiKey, notFounds, memo,
                   reqNo, reqs, lastErr, changed, cancelled>>

(***************************************************************************)
(* Specifications.                                                          *)
(***************************************************************************)
\* What a grid directory and the override directory hold for a unit before
\* the program ever ran: nothing, a custom image the user set (which no
\* overlay was applied to), an old-style backup, an override.
InitialFiles ==
    { NoFiles,
      WriteFile(NoFiles, CanonPath(".png"), ManualImg),
      WriteFile(NoFiles, CanonPath(".jpeg"), ManualImg),
      WriteFile(NoFiles, CanonPath(".webp"), ManualImg),
      WriteFile(WriteFile(NoFiles, CanonPath(".jpg"), ManualImg), OldBackupPath(".jpg"), LegacyImg),
      WriteFile(NoFiles, OverrideIDPath(".png"), OverrideImg),
      WriteFile(NoFiles, OverrideIDPath(".png"), JunkImg),
      WriteFile(WriteFile(NoFiles, CanonPath(".png"), ManualImg), OverrideNamePath(".webp"), OverrideImg) }

SingleUnits ==
    { <<Unit("440", "Team Fortress 2", FALSE, a)>> : a \in ArtStyles }
    \cup { <<Unit("3226538715", "Emulator", TRUE, "Banner")>>,
           <<Unit("70", "", FALSE, "Banner")>> }

\* Steam and the search; SteamGridDB and IGDB; Steam and SteamGridDB.
FlagChoices ==
    { Flags(FALSE, FALSE, "", ""),
      Flags(TRUE, TRUE, "key", "key"),
      Flags(FALSE, TRUE, "key", "") }

\* The units have not been processed in another order.
NoFirst == [compared |-> FALSE]

\* The program has not run yet.
NotStarted ==
    /\ tags = [u \in DOMAIN units |-> << >>]
    /\ run = 0
    /\ pc = "idle"
    /\ ui = 1
    /\ game = NewGame(<< >>)
    /\ all = << >>
    /\ url = ""
    /\ from = ""
    /\ dimTry = 0
    /\ steamGridDBApiKey = cfg.steamGridDBApiKey
    /\ notFounds = {}
    /\ memo = [u \in DOMAIN units |-> << >>]
    /\ reqNo = 0
    /\ reqs = << >>
    /\ log = [u \in DOMAIN units |-> << >>]
    /\ lastErr = ""
    /\ changed = FALSE
    /\ faults = 0
    /\ cancelled = FALSE
    /\ first = NoFirst

\* No image is looked at frame by frame.
NoJob == [format |-> "none"]
NoResult == [produced |-> FALSE]
NoComposite == job = NoJob /\ res = NoResult

InitWith(unitChoices) ==
    /\ units \in unitChoices
    /\ cfg \in FlagChoices
    /\ fs \in [DOMAIN units -> InitialFiles]
    /\ \/ cfg = Flags(FALSE, FALSE, "", "")
       \/ \A u \in DOMAIN units : fs[u] = NoFiles
    /\ NotStarted
    /\ NoComposite

Init == InitWith(SingleUnits)

Next ==
    \/ StartRun
    \/ Cancel
    \/ BeginUnit
    \/ RemoveOne
    \/ Steam1
    \/ Steam2
    \/ SgdbID
    \/ SgdbSearch
    \/ SgdbGame
    \/ IgdbGames
    \/ IgdbCovers
    \/ Google
    \/ Fetch
    \/ Overlay
    \/ Backup
    \/ WriteImage
    \/ WriteBigPicture

\* One (game, art style) unit of one user, run after run.
Spec == Init /\ [][Next]_vars

\* Two units of one run, in the order the loops over the games and over the
\* art styles (a map, so in any order) come to them.
BatchUnits ==
    { <<Unit("440", "Team Fortress 2", FALSE, "Cover"),
        Unit("440", "Team Fortress 2", FALSE, "Banner")>>,
      <<Unit("3226538715", "Emulator", TRUE, "Banner"),
        Unit("440", "Team Fortress 2", FALSE, "Cover")>> }

InitBatch ==
    /\ InitWith(BatchUnits)
    /\ fs[1] \in {NoFiles, WriteFile(NoFiles, CanonPath(".png"), ManualImg)}
    /\ fs[2] = NoFiles

NextBatch ==
    \/ StartRun /\ run = 0 /\ tags' = tags
    \/ BeginUnit
    \/ RemoveOne
    \/ Steam1
    \/ Steam2
    \/ SgdbID
    \/ SgdbSearch
    \/ SgdbGame
    \/ IgdbGames
    \/ IgdbCovers
    \/ Google
    \/ Fetch
    \/ Overlay
    \/ Backup
    \/ WriteImage
    \/ WriteBigPicture

\* One run of the program over two units, which nobody kills.
SpecBatch == InitBatch /\ [][NextBatch]_vars

\* The run is one goroutine that no step blocks for ever: every call to a
\* provider and to the file system returns, so a step that can be taken is
\* taken.
InitFair ==
    /\ InitBatch
    /\ cfg \in {Flags(FALSE, FALSE, "", ""), Flags(TRUE, TRUE, "key", "key")}
FairBatch == InitFair /\ [][NextBatch]_vars /\ WF_vars(NextBatch)

\* The files loadExisting may find for a unit: an override by ID (of a format
\* the grid directory is not searched for), an override by name, an old-style
\* backup, canonical files the program wrote (an image with overlays) or the
\* user put there, and the backup of the former.
OverlaidImg == [base |-> Base("net", "png"), ov |-> << <<"favorite">> >>]
LoadCandidates ==
    LET c1 == WriteFile(NoFiles, OverrideIDPath(".webp"), Clean(Base("by id", "webp")))
        c2 == WriteFile(c1, OverrideNamePath(".png"), Clean(Base("by name", "png")))
        c3 == WriteFile(c2, OldBackupPath(".jpg"), LegacyImg)
        c4 == WriteFile(c3, CanonPath(".png"), OverlaidImg)
        c5 == WriteFile(c4, CanonPath(".webp"), ManualImg)
    IN WriteFile(c5, Path("originals", Sha256(OverlaidImg), ".png"), PreOverlay(OverlaidImg))
LoadFiles == { [p \in S |-> LoadCandidates[p]] : S \in SUBSET DOMAIN LoadCandidates }
LoadUnits ==
    { <<Unit("440", "Team Fortress 2", FALSE, "Banner")>>,
      <<Unit("70", "", FALSE, "Banner")>> }

InitLoad ==
    /\ units \in LoadUnits
    /\ cfg = Flags(FALSE, FALSE, "", "")
    /\ fs \in [DOMAIN units -> LoadFiles]
    /\ NotStarted
    /\ NoComposite

NextLoad ==
    \/ StartRun /\ run = 0 /\ tags' = tags
    \/ BeginUnit

\* loadExisting applied to every set of files of LoadFiles.
SpecLoad == InitLoad /\ [][NextLoad]_vars

(***************************************************************************)
(* ApplyOverlay frame by frame.  An image is "static" (one frame), "apng"   *)
(* or "webp" (animations of Len(ts) frames, ts the timestamps the decoder   *)
(* reports, in milliseconds); a frame of the result is the overlays drawn   *)
(* on it and its time: the DelayNumerator of an APNG frame, the timestamp   *)
(* given to AddFrame for a WEBP frame.                                      *)
(***************************************************************************)
\* The conversion of an int to uint16.
Uint16(x) == x % 65536

Sizes == (1..MaxDim) \X (1..MaxDim)
Timestamps == {0, 100, 300, 65836}
TimeSeqs ==
    { t \in UNION { [1..n -> Timestamps] : n \in 2..MaxFrames } :
        \A i \in 1..(Len(t) - 1) : t[i] < t[i + 1] }
TagLists == { << >>, <<"">>, <<"favorite">>, <<"favorite", "new">> }
NameExts == {artStyleExtensions(a).nameExt : a \in ArtStyles}

Job(format, ext, size, ts, tgs, nameExt, conv, convCB, maxMem, overlaySize, rewinds) ==
    [format |-> format, ImageExt |-> ext, size |-> size, ts |-> ts, Tags |-> tgs,
     nameExt |-> nameExt, convertWebpToApng |-> conv,
     convertWebpToApngCoversBanners |-> convCB, maxMem |-> maxMem,
     overlaySize |-> overlaySize, rewinds |-> rewinds]

\* rewinds: whether webpanimation.GetNextFrame, called again after it has
\* reported the end of the animation, starts over (the library is not part
\* of the sources, both are taken).
Jobs ==
    { Job("webp", ".webp", sz, t, tg, ne, c, cb, mm, <<1, 1>>, rw) :
        sz \in Sizes, t \in TimeSeqs, tg \in TagLists, ne \in NameExts,
        c \in BOOLEAN, cb \in BOOLEAN, mm \in {0, 16, 20, 32}, rw \in BOOLEAN }
    \cup { Job("apng", ".png", sz, t, tg, ne, FALSE, FALSE, 0, <<1, 1>>, FALSE) :
             sz \in Sizes, t \in TimeSeqs, tg \in TagLists, ne \in NameExts }
    \cup { Job("static", e, sz, <<0>>, tg, ne, FALSE, FALSE, 0, osz, FALSE) :
             e \in {".png", ".jpg"}, sz \in Sizes, tg \in TagLists,
             ne \in NameExts, osz \in Sizes }

Result(produced, encoder, frames, size, scaled, freed, streams) ==
    [produced |-> produced, encoder |-> encoder, frames |-> frames, size |-> size,
     scaled |-> scaled, freed |-> freed, streams |-> streams]

ApplyOverlayFrames(j) ==
    LET isWebp == j.format = "webp"
        N == Len(j.ts)
        memNeeded == j.size[1] * j.size[2] * 4 * N
        \* lines 269-270, and lines 300-309 for an animated WEBP
        enabled == convertWebpToApngFor(j.nameExt, j.convertWebpToApng,
                                        j.convertWebpToApngCoversBanners, 0, 0)
        convert == convertWebpToApngFor(j.nameExt, j.convertWebpToApng,
                                        j.convertWebpToApngCoversBanners,
                                        j.maxMem, memNeeded)
        freed == /\ isWebp /\ enabled /\ j.maxMem > 0
                 /\ memNeeded <= j.maxMem /\ memNeeded > j.maxMem \div 2
        matched == SelectSeq(j.Tags, LAMBDA t : t \in OverlayTags)
        k == Len(matched)
        delay(i) == IF i = 1 THEN 0 ELSE Uint16(j.ts[i] - j.ts[i - 1])
        \* the frames GetNextFrame delivers to the loop of the pass-th
        \* matching tag
        Delivered(pass) == IF pass = 1 \/ j.rewinds THEN N ELSE 0
        ApngPass(pass, ovs) ==
            [i \in 1..Delivered(pass) |-> [ovs |-> ovs, time |-> delay(i)]]
        WebpPass(pass, ovs) ==
            [i \in 1..Delivered(pass) |-> [ovs |-> ovs, time |-> j.ts[i]]]
        scaled == j.size[1] # j.overlaySize[1] /\ j.size[2] # j.overlaySize[2]
        nothing == Result(FALSE, "none", << >>, j.size, FALSE, freed, 0)
    IN IF j.Tags = << >> THEN Result(FALSE, "none", << >>, j.size, FALSE, FALSE, 0)
       ELSE IF k = 0
       THEN \* lines 479-531: not applied
            IF isWebp /\ convert
            THEN Result(TRUE, "apng", ApngPass(1, << >>), j.size, FALSE, freed, 1)
            ELSE nothing
       ELSE IF j.format = "apng"
       THEN \* lines 355-379: every matching tag draws on the frames in place
            Result(TRUE, "apng", [i \in 1..N |-> [ovs |-> matched, time |-> j.ts[i]]],
                   j.size, scaled, FALSE, 1)
       ELSE IF isWebp /\ convert
       THEN \* lines 380-456: every matching tag starts an APNG stream of its
            \* own in buf; the first stream is the image the bytes decode to
            Result(TRUE, "apng", ApngPass(1, <<matched[1]>>), j.size, scaled, freed, k)
       ELSE IF isWebp
       THEN \* every matching tag starts a WEBP animation of its own, the last
            \* one is encoded
            Result(TRUE, "webp", WebpPass(k, <<matched[k]>>), j.size, scaled, freed, 1)
       ELSE \* lines 459-476: the single image, on a canvas of the overlay's size
            Result(TRUE, IF j.ImageExt = ".jpg" THEN "jpeg" ELSE "png",
                   << [ovs |-> matched, time |-> 0] >>, j.overlaySize, scaled, FALSE, 1)

\* ApplyOverlay is called on job.
Composite ==
    /\ job # NoJob
    /\ res = NoResult
    /\ res' = ApplyOverlayFrames(job)
    /\ UNCHANGED <<first, job, units, cfg, fs, tags, run, pc, ui, game, all, url, from,
                   dimTry, steamGridDBApiKey, notFounds, memo, reqNo, reqs, log,
                   lastErr, changed, faults, cancelled>>

InitFrames ==
    /\ units = <<Unit("440", "Team Fortress 2", FALSE, "Banner")>>
    /\ cfg = Flags(FALSE, FALSE, "", "")
    /\ fs = [u \in DOMAIN units |-> NoFiles]
    /\ NotStarted
    /\ job \in Jobs
    /\ res = NoResult

NextFrames == Composite

\* ApplyOverlay applied to every job of Jobs.
SpecFrames == InitFrames /\ [][NextFrames]_vars

(***************************************************************************)
(* The order of the units.  The loop over the art styles ranges over a map, *)
(* so one start of the program comes to the art styles of a game in one     *)
(* order and another start in another.  Reorder starts the program over the *)
(* files the first run began with, the units in the other order, and keeps  *)
(* what the first run left behind in "first"; the network answers the k-th  *)
(* request for a unit as it did in the first run (memo).                    *)
(***************************************************************************)
OrderUnits ==
    { <<Unit("440", "Team Fortress 2", FALSE, "Cover"),
        Unit("440", "Team Fortress 2", FALSE, "Banner")>> }

InitOrder ==
    /\ units \in OrderUnits
    /\ cfg = Flags(TRUE, TRUE, "key", "key")
    /\ fs \in { <<f, NoFiles>> :
                  f \in {NoFiles, WriteFile(NoFiles, CanonPath(".png"), ManualImg)} }
    /\ NotStarted
    /\ NoComposite

\* f with its two elements in the other order.
Swap(f) == <<f[2], f[1]>>

Reorder ==
    /\ pc = "done"
    /\ first = NoFirst
    /\ faults = 0
    /\ first' = [compared |-> TRUE,
                 fs |-> Swap(fs),
                 notFounds |-> {3 - u : u \in notFounds},
                 memo |-> Swap(memo),
                 steamGridDBApiKey |-> steamGridDBApiKey]
    /\ units' = Swap(units)
    /\ fs' = <<log[2][1].start, log[1][1].start>>
    /\ tags' = Swap(tags)
    /\ memo' = Swap(memo)
    /\ log' = Swap(log)
    /\ run' = run + 1
    /\ pc' = "unit"
    /\ ui' = 1
    /\ steamGridDBApiKey' = cfg.steamGridDBApiKey
    /\ notFounds' = {}
    /\ lastErr' = ""
    /\ reqs' = << >>
    /\ ResetLocals
    /\ UNCHANGED <<job, res, cfg, changed, faults, cancelled>>

NextOrder ==
    \/ StartRun /\ run = 0 /\ tags' = tags
    \/ Reorder
    \/ BeginUnit
    \/ RemoveOne
    \/ SgdbID
    \/ SgdbSearch
    \/ SgdbGame
    \/ IgdbGames
    \/ IgdbCovers
    \/ Fetch
    \/ Overlay
    \/ Backup
    \/ WriteImage
    \/ WriteBigPicture

\* Two art styles of one game, processed in one order and then in the other,
\* by a program started with -skipsteam and -skipgoogle.
SpecOrder == InitOrder /\ [][NextOrder]_vars

(***************************************************************************)
(* Properties.                                                              *)
(***************************************************************************)
\* Every run so far ran to its end and no filesystem operation failed.
CompleteRuns ==
    /\ ~cancelled
    /\ faults = 0
    /\ \A u \in DOMAIN log : \A i \in 1..Len(log[u]) :
         i < Len(log[u]) => log[u][i].finished
Backups(fls) == [p \in {q \in DOMAIN fls : q.dir = "originals"} |-> fls[p]]

\* C1: in complete runs over the same unit, the clean image every run gives
\* to ApplyOverlay is never an overlay-applied image, and is the same bytes
\* as the clean image the first run gave to it.
C1_CleanImageOfFirstRun ==
    CompleteRuns =>
        \A u \in DOMAIN log : \A i, j \in 1..Len(log[u]) :
            log[u][i].applied /\ log[u][j].applied =>
                /\ ~IsOverlaid(log[u][i].fed)
                /\ log[u][i].fed = log[u][j].fed

\* The canonical files of a unit, and the backup a canonical file's bytes
\* name.
Canonicals(fls) == {p \in DOMAIN fls : p.dir = "grid"}
BackupOf(fls, p) == Path("originals", Sha256(fls[p]), p.ext)
\* c is the image that img was composited from: the same picture without
\* img's last layer of overlays (an animated WEBP may have become an APNG).
IsCleanOf(c, img) == c.base.name = img.base.name /\ c.ov = PreOverlay(img).ov
HasCleanBackup(fls, p) ==
    /\ BackupOf(fls, p) \in DOMAIN fls
    /\ IsCleanOf(fls[BackupOf(fls, p)], fls[p])

Rerun(u) ==
    /\ CompleteRuns
    /\ ~changed
    /\ Len(log[u]) >= 2
    /\ Len(log[u]) = run
    /\ log[u][Len(log[u])].finished
    /\ log[u][Len(log[u]) - 1].finished
Last(u) == log[u][Len(log[u])]
Before(u) == log[u][Len(log[u]) - 1]

BackupWrites(e) == SelectSeq(e.written, LAMBDA w : w.path.dir = "originals")

\* C4: backupGame does not write over a backup file that is present, and a
\* second run over the same clean image and the same tag set performs no
\* backup write.
C4_NoSecondBackupWrite ==
    /\ \A u \in DOMAIN log : \A i \in 1..Len(log[u]) :
         \A k \in 1..Len(BackupWrites(log[u][i])) : ~BackupWrites(log[u][i])[k].existed
    /\ \A u \in DOMAIN log :
         (Rerun(u) /\ Last(u).applied /\ Before(u).applied /\ Last(u).fed = Before(u).fed)
            => BackupWrites(Last(u)) = << >>
\* A clean image of unit u is recoverable from the files fls: an override
\* file, a legacy backup, or a file at the canonical path.
Recoverable(u, fls) ==
    \E p \in DOMAIN fls :
        \/ p.dir = "games id"
        \/ p.dir = "games name" /\ units[u].Name # ""
        \/ p.dir = "old"
        \/ p.dir = "grid"
Sent == SelectSeq(reqs, LAMBDA r : r.sent)

\* C5: when a clean image of a unit is recoverable locally as the unit
\* starts, no request is sent to a provider for the unit in that run,
\* whichever format the file at the canonical path has.
C5_NoRequestWhenRecoverable ==
    (InRun /\ log[ui] # << >> /\ Recoverable(ui, Cur.start)) => Sent = << >>

\* Scenario D: the files of a unit are a file at the canonical path and
\* nothing else.
ScenarioD(fls) == DOMAIN fls # {} /\ DOMAIN fls \subseteq Canonicals(fls)
TheCanonical(fls) == fls[CHOOSE p \in DOMAIN fls : TRUE]

\* C6: a file at the canonical path that matches no backup is classified
\* "manual customization" and used as the clean image; after the run it has
\* a backup, and a second run classifies the image as "backup" and recovers
\* the same clean bytes.
C6_ScenarioD ==
    \A u \in DOMAIN log :
        (CompleteRuns /\ log[u] # << >> /\ ScenarioD(log[u][1].start)) =>
            /\ log[u][1].source = "manual customization"
            /\ log[u][1].applied => log[u][1].fed = TheCanonical(log[u][1].start)
            /\ log[u][1].finished =>
                 \E p \in DOMAIN log[u][1].end :
                     p.dir = "originals" /\ log[u][1].end[p] = TheCanonical(log[u][1].start)
            /\ Len(log[u]) >= 2 =>
                 /\ log[u][2].source = "backup"
                 /\ log[u][2].applied => log[u][2].fed = TheCanonical(log[u][1].start)

\* The images on disk the user would want back: a custom image at the
\* canonical path (no overlay applied), the clean image of a backup.
Kept(fls) ==
    {fls[p] : p \in {q \in DOMAIN fls : (q.dir = "grid" /\ ~IsOverlaid(fls[q]))
                                             \/ q.dir = "originals"}}
OnDisk(fls) == {fls[p] : p \in DOMAIN fls}

\* C7: the run is cancelled at any moment: a custom or backed-up clean
\* image the unit started the run with (and that no override or legacy
\* backup stood in for) is still in a file.
C7_CancelKeepsCleanImage ==
    (cancelled /\ pc = "idle" /\ faults = 0) =>
        \A u \in DOMAIN log :
            (log[u] # << >> /\ \A p \in DOMAIN Last(u).start : p.dir \in {"grid", "originals", "bigpicture"})
                => Kept(Last(u).start) \subseteq OnDisk(fs[u])

\* A provider's answer is a soft miss: the call returns neither a result
\* nor an error (tryDownload on a 404, a SteamGridDB, IGDB or search answer
\* without a match).
SoftMiss(r) ==
    CASE r.kind \in {"steam1", "steam2", "fetch"} ->
             tryDownload(r.answer) = [response |-> NoResponse, err |-> ""]
      [] r.kind = "sgdb_id" -> r.answer \in {"404", "empty"}
      [] r.kind \in {"sgdb_search", "sgdb_game", "google"} -> r.answer = "empty"
      [] r.kind \in {"igdb_games", "igdb_covers"} -> r.answer \in {"empty", "malformed"}
      [] OTHER -> FALSE
AllSoftMiss == Sent # << >> /\ \A i \in 1..Len(Sent) : SoftMiss(Sent[i])

ProviderRank(kind) ==
    CASE kind = "steam1" -> 1
      [] kind = "steam2" -> 2
      [] kind \in {"sgdb_id", "sgdb_search", "sgdb_game"} -> 3
      [] kind \in {"igdb_games", "igdb_covers"} -> 4
      [] kind = "google" -> 5
      [] OTHER -> 6
Attempted(kinds) == \E i \in 1..Len(reqs) : reqs[i].kind \in kinds

\* C9: providers are attempted in the fixed order, and a unit is not found
\* (without an error) only after every applicable, enabled provider was
\* attempted.
C9_NotFoundAfterAllProviders ==
    /\ \A i, j \in 1..Len(reqs) :
         i < j => ProviderRank(reqs[i].kind) <= ProviderRank(reqs[j].kind)
    /\ (pc = "done" /\ ui \in notFounds /\ lastErr = "") =>
         /\ ~cfg.skipSteam => Attempted({"steam1"}) /\ Attempted({"steam2"})
         /\ cfg.steamGridDBApiKey # "" => Attempted({"sgdb_id", "sgdb_search"})
         /\ (style = "Cover" /\ cfg.IGDBApiKey # "") => Attempted({"igdb_games"})
         /\ (style = "Banner" /\ ~cfg.skipGoogle) => Attempted({"google"})

\* C10: a downloaded candidate of size w x h is accepted for a Banner only
\* if w > h and for a Cover only if h > w.
C10_GuardRejectsSquare ==
    (pc = "overlay" /\ Sent # << >>) =>
        LET a == Sent[Len(Sent)].answer
        IN /\ style = "Banner" => a.X > a.Y
           /\ style = "Cover" => a.Y > a.X

\* The answer r is a candidate DownloadImage drops for its aspect ratio.
GuardRejected(r) ==
    /\ r.sent
    /\ r.kind \in {"steam1", "steam2", "fetch"}
    /\ r.answer.status = "200"
    /\ Decodes(r.answer.body)
    /\ GuardRejects(style, r.answer.X, r.answer.Y)

\* C11: a candidate from the primary Steam CDN that violates the guard is a
\* soft miss: the unit is not given up as not found on it, the next source
\* of the chain (the secondary Steam CDN at least) comes after it.
C11_GuardMissContinues ==
    (pc # "unit" /\ reqs # << >> /\ reqs[Len(reqs)].kind = "steam1"
       /\ GuardRejected(reqs[Len(reqs)])) => ui \notin notFounds

\* The requests sent for unit u in the first run, in order, are memo[u].
SgdbKinds == {"sgdb_id", "sgdb_search", "sgdb_game"}
SgdbRequests(u) == {i \in DOMAIN memo[u] : memo[u][i].kind \in SgdbKinds}
Got401(u) == \E i \in SgdbRequests(u) : memo[u][i].answer = "401"

\* C12: once a SteamGridDB request of a run is answered with 401, no
\* SteamGridDB request is issued for any later unit of that run.
C12_CircuitBreaker ==
    run = 1 => \A u, v \in DOMAIN units :
                 (u < v /\ Got401(u)) => SgdbRequests(v) = {}

\* What holds of the code: the key is cleared by a 401 on the request by
\* appID or on the search, the two that return the authorization error.
C12_BreakerOnIdAndSearch ==
    run = 1 => \A u, v \in DOMAIN units :
                 (u < v /\ \E i \in SgdbRequests(u) :
                              /\ memo[u][i].answer = "401"
                              /\ memo[u][i].kind # "sgdb_game")
                 => SgdbRequests(v) = {}

\* A SteamGridDB request for the current unit was answered with 401.
Sgdb401 == \E i \in 1..Len(reqs) : reqs[i].kind \in SgdbKinds /\ reqs[i].answer = "401"

\* C13: a SteamGridDB 401 does not end the resolution of the unit: the
\* providers after SteamGridDB that apply to it (IGDB for a Cover, the search
\* for a Banner) are still tried for it in the same run.
C13_AuthFailureContinues ==
    (pc = "done" /\ Sgdb401) =>
        /\ (style = "Cover" /\ cfg.IGDBApiKey # "") => Attempted({"igdb_games"})
        /\ (style = "Banner" /\ ~cfg.skipGoogle) => Attempted({"google"})

\* What holds of the code: a 401 is the last request of the unit, which ends
\* not found and with an error.
C13_AuthFailureEndsUnit ==
    (pc # "unit" /\ Sgdb401) =>
        /\ reqs[Len(reqs)].kind \in SgdbKinds
        /\ reqs[Len(reqs)].answer = "401"
        /\ ui \in notFounds
        /\ lastErr # ""

C15_WriteFailureKeepsRunning == pc # "exited"

\* What holds of the code: a failed write of the canonical file or of its
\* Big Picture copy is only printed; the run ends early only in backupGame.
C15_OnlyBackupExits ==
    [][pc' = "exited" => pc \in {"backupGame", "exited"}]_vars

\* The provider whose answer the image of the current unit was downloaded
\* from: the Steam server asked directly, or the one that gave the URL of the
\* last download.
Supplier ==
    LET n == Len(Sent)
    IN IF Sent[n].kind \in {"steam1", "steam2"} THEN "steam server"
       ELSE IF n < 2 THEN "nobody"
       ELSE CASE Sent[n - 1].kind \in SgdbKinds -> "SteamGridDB"
              [] Sent[n - 1].kind \in {"igdb_games", "igdb_covers"} -> "IGDB"
              [] Sent[n - 1].kind = "google" -> "search"
              [] OTHER -> "nobody"

\* The provenance loadExisting records for a file of the directory dir.
LocalSources(dir) ==
    CASE dir = "games id" -> {"local file in directory 'games'"}
      [] dir = "games name" -> {"local file in directory games/"}
      [] dir = "old" -> {"legacy backup (now converted)"}
      [] dir = "grid" -> {"manual customization"}
      [] dir = "originals" -> {"backup"}
      [] OTHER -> {}

C16_WitnessLocal ==
    /\ pc = "write"
    /\ Sent = << >>
    /\ game.ImageSource = "backup"

\* What loadExisting made of the files the unit started with.
Loaded == log[ui] # << >> /\ pc # "unit"
StartIn(dir) == {p \in DOMAIN Cur.start : p.dir = dir}
LoadedFrom(paths, source) ==
    /\ Cur.source = source
    /\ \E p \in paths : game.CleanImageBytes = Cur.start[p] /\ game.ImageExt = p.ext
\* The clean image comes from the canonical file p: from its backup when
\* there is one, from p itself as a manual customization when there is none.
LoadedFromCanonical(p) ==
    IF BackupOf(Cur.start, p) \in DOMAIN Cur.start
    THEN LoadedFrom({BackupOf(Cur.start, p)}, "backup")
    ELSE LoadedFrom({p}, "manual customization")
ByPriority(canonicals) ==
    IF StartIn("games id") # {}
    THEN LoadedFrom(StartIn("games id"), "local file in directory 'games'")
    ELSE IF U.Name # "" /\ StartIn("games name") # {}
    THEN LoadedFrom(StartIn("games name"), "local file in directory games/")
    ELSE IF StartIn("old") # {}
    THEN LoadedFrom(StartIn("old"), "legacy backup (now converted)")
    ELSE IF canonicals # {}
    THEN \E p \in canonicals : LoadedFromCanonical(p)
    ELSE Cur.source = "" /\ game.CleanImageBytes = Nil

\* C17: loadExisting recovers from the first of: an override file matching
\* the game ID, an override file matching the game name, a legacy backup,
\* the file at the canonical path (its hashed backup when there is one, the
\* file itself as a manual customization when not); a source is never used
\* when one before it in this order is present.
C17_Priority == Loaded => ByPriority(StartIn("grid"))

\* What holds of the code: the same order, with only the .png, .jpg and .jpeg
\* files at the canonical path taken as its fourth source.
C17_PriorityOfImages ==
    Loaded => ByPriority({p \in StartIn("grid") : p.ext \in {".png", ".jpg", ".jpeg"}})

\* No tag of the current unit has an overlay for its art style.
NoOverlayMatches == \A i \in DOMAIN tags[ui] : tags[ui][i] \notin OverlayTags

\* C18: when no tag of the game has a matching overlay (the empty tag list
\* included), the bytes written to the canonical path are the bytes of the
\* clean image, whatever its format.
C18_NoOverlayPassThrough ==
    (pc \in {"backupGame", "write", "bigpicture"} /\ NoOverlayMatches) =>
        /\ game.OverlayImageBytes = game.CleanImageBytes
        /\ \A i \in DOMAIN Cur.written :
             Cur.written[i].path.dir = "grid" => Cur.written[i].bytes = Cur.fed

\* What holds of the code: the clean image passes through for every format
\* but the animated WEBP, and for the animated WEBP when the tag list is
\* empty.
C18_PassThroughButWebp ==
    (pc \in {"backupGame", "write", "bigpicture"} /\ NoOverlayMatches
       /\ (game.CleanImageBytes.base.kind # "webp" \/ tags[ui] = << >>)) =>
        /\ game.OverlayImageBytes = game.CleanImageBytes
        /\ \A i \in DOMAIN Cur.written :
             Cur.written[i].path.dir = "grid" => Cur.written[i].bytes = Cur.fed

SteamKinds == {"steam1", "steam2"}
SteamRequested == \E i \in DOMAIN Sent : Sent[i].kind \in SteamKinds

\* C19: no request is sent to a Steam CDN mirror for a custom (non-Steam)
\* game, nor for any game when skipSteam is set.
C19_NoSteamForCustomOrSkip ==
    (pc # "unit" /\ SteamRequested) => (~U.Custom /\ ~cfg.skipSteam)

\* What holds of the code: no request to a Steam CDN mirror with skipSteam.
C19_NoSteamWhenSkipped ==
    (pc # "unit" /\ SteamRequested) => ~cfg.skipSteam

\* C20: for a request to a Steam CDN mirror, a 404 lets the chain go on,
\* and any other status >= 400 ends the resolution of the unit: no later
\* provider is tried and DownloadImage returns an error.
C20_SteamHardError ==
    \A i \in DOMAIN reqs :
        (reqs[i].sent /\ reqs[i].kind \in SteamKinds /\ reqs[i].answer.status = "500")
        => /\ \A j \in DOMAIN reqs : j > i => ~reqs[j].sent
           /\ pc = "done" => lastErr # ""

\* What holds of the code: every status >= 400 of a Steam CDN mirror is
\* treated alike, the chain goes on to the next source and the unit never
\* ends on the error of the mirror.
C20_SteamErrorsAreSoft ==
    (pc \notin {"unit", "idle", "exited"} /\ reqs # << >>
       /\ reqs[Len(reqs)].kind = "steam1" /\ reqs[Len(reqs)].sent
       /\ reqs[Len(reqs)].answer.status \in {"404", "500", "neterr"})
    => (pc = "steam2" /\ lastErr = "")

\* The extensions of the files entry e wrote to the canonical path.
CanonExts(e) == {e.written[i].path.ext : i \in {j \in DOMAIN e.written : e.written[j].path.dir = "grid"}}
\* The canonical and backup files entry e wrote.
GridWrites(e) ==
    {e.written[i].path : i \in {j \in DOMAIN e.written : e.written[j].path.dir \in {"grid", "originals"}}}

\* C21: after a unit whose resolved format differs from the one of the run
\* before, no canonical or backup file that the run before wrote in the old
\* format remains, whichever the two formats are.
C21_NoStaleFormat ==
    \A u \in DOMAIN log :
        (CompleteRuns /\ Len(log[u]) >= 2 /\ Last(u).finished /\ CanonExts(Last(u)) # {})
        => \A p \in GridWrites(Before(u)) :
              p.ext \notin CanonExts(Last(u)) => p \notin DOMAIN Last(u).end

\* What holds of the code: the files of the run before that are left are of
\* the formats filterForImages does not list.
C21_StaleOnlyUnlisted ==
    \A u \in DOMAIN log :
        (CompleteRuns /\ Len(log[u]) >= 2 /\ Last(u).finished /\ CanonExts(Last(u)) # {})
        => \A p \in GridWrites(Before(u)) :
              (p.ext \notin CanonExts(Last(u)) /\ p.ext \in {".png", ".jpg", ".jpeg"})
              => p \notin DOMAIN Last(u).end

\* C22: a decode error of ApplyOverlay aborts the unit: the unit is put
\* among the failed ones with the error, and nothing is written for it.
C22_DecodeErrorAborts ==
    \A u \in DOMAIN log : \A i \in DOMAIN log[u] :
        log[u][i].failed # "" => log[u][i].written = << >>

\* What holds of the code: a unit that failed in ApplyOverlay goes on to
\* "Save result" with the clean bytes in place of the composited ones.
C22_FailedUnitIsSaved ==
    (pc \in {"backupGame", "write", "bigpicture"} /\ Cur.failed # "") =>
        game.OverlayImageBytes = game.CleanImageBytes

\* ApplyOverlay has been applied to job.
Composited == res # NoResult
Matched(j) == SelectSeq(j.Tags, LAMBDA t : t \in OverlayTags)
Animated(j) == j.format \in {"apng", "webp"}

\* C23: for an animation of N > 1 frames and k >= 1 tags with a matching
\* overlay, the composited image has N frames and every frame carries the
\* overlays of all the matching tags (also when a WEBP becomes an APNG).
C23_EveryFrameOverlaid ==
    (Composited /\ Animated(job) /\ Len(Matched(job)) >= 1) =>
        /\ res.produced
        /\ Len(res.frames) = Len(job.ts)
        /\ \A i \in DOMAIN res.frames : res.frames[i].ovs = Matched(job)

\* What holds of the code: the same for an APNG, and for an animated WEBP
\* with one matching tag.
C23_OneTagOrApng ==
    (Composited /\ Animated(job) /\ Len(Matched(job)) >= 1
       /\ (job.format = "apng" \/ Len(Matched(job)) = 1)) =>
        /\ res.produced
        /\ Len(res.frames) = Len(job.ts)
        /\ \A i \in DOMAIN res.frames : res.frames[i].ovs = Matched(job)

\* An animated WEBP has been transcoded to APNG.
Transcoded == Composited /\ job.format = "webp" /\ res.produced /\ res.encoder = "apng"
\* The delay of frame i of the source, the first frame starting at zero.
SourceDelay(i) == IF i = 1 THEN 0 ELSE job.ts[i] - job.ts[i - 1]

\* C24: in a transcode of an animated WEBP to APNG the DelayNumerator of
\* every frame is the delay of that frame in the source, so the order of the
\* delays is the one of the source, for all timestamps.
C24_DelaysPreserved ==
    Transcoded =>
        /\ \A i \in DOMAIN res.frames : res.frames[i].time = SourceDelay(i)
        /\ \A i, k \in DOMAIN res.frames :
             SourceDelay(i) < SourceDelay(k) => res.frames[i].time < res.frames[k].time

\* What holds of the code: the same while every delay fits 16 bits.
C24_DelaysBelow65536 ==
    (Transcoded /\ \A i \in DOMAIN job.ts : SourceDelay(i) < 65536) =>
        \A i \in DOMAIN res.frames : res.frames[i].time = SourceDelay(i)

\* The configuration enables the transcoding for the art style of j.
TranscodeConfigured(j) ==
    \/ j.convertWebpToApng
    \/ (j.convertWebpToApngCoversBanners /\ j.nameExt \in {".cover", ".banner"})
MemNeeded(j) == Len(j.ts) * j.size[1] * j.size[2] * 4
Gated(j) == j.format = "webp" /\ TranscodeConfigured(j) /\ j.maxMem > 0

\* C25 (as amended): with transcoding enabled and a budget maxMem, an
\* animated WEBP of a game with a non-empty tag list is transcoded to APNG
\* if and only if frames x width x height x 4 does not exceed maxMem; over
\* the budget the output of a game with a matching overlay is produced by
\* the WEBP animation encoder; memory is reclaimed eagerly exactly when the
\* need is within the budget and above half of it.
C25_MemoryGate ==
    (Composited /\ Gated(job) /\ job.Tags # << >>) =>
        /\ res.encoder = "apng" <=> MemNeeded(job) <= job.maxMem
        /\ (MemNeeded(job) > job.maxMem /\ Len(Matched(job)) >= 1) => res.encoder = "webp"
        /\ res.freed <=> (MemNeeded(job) <= job.maxMem /\ 2 * MemNeeded(job) > job.maxMem)

\* An animation within the budget and above half of it was transcoded after
\* memory was reclaimed.
C25_Witness ==
    /\ Composited /\ Gated(job) /\ job.Tags # << >>
    /\ 2 * MemNeeded(job) > job.maxMem
    /\ MemNeeded(job) <= job.maxMem
    /\ res.freed
    /\ res.encoder = "apng"

\* C25 as stated: for every animated WEBP, whatever the tags of the game.
C25_MemoryGateAnyTags ==
    (Composited /\ Gated(job)) =>
        /\ res.encoder = "apng" <=> MemNeeded(job) <= job.maxMem
        /\ MemNeeded(job) > job.maxMem => res.encoder = "webp"
        /\ res.freed <=> (MemNeeded(job) <= job.maxMem /\ 2 * MemNeeded(job) > job.maxMem)

\* An overlay was drawn on a single image.
StaticOverlaid == Composited /\ job.format = "static" /\ Len(Matched(job)) >= 1

\* C26: in the static path the base image is scaled to the size of the
\* overlay if and only if its width or its height differs from the
\* overlay's, and the result has the width and height of the overlay.
C26_ScaledIffDifferent ==
    StaticOverlaid =>
        /\ res.scaled <=> job.size # job.overlaySize
        /\ res.size = job.overlaySize

\* What holds of the code: the base image is scaled only when both its
\* width and its height differ; the result has the size of the overlay.
C26_ScaledIffBothDiffer ==
    StaticOverlaid =>
        /\ res.scaled <=> (job.size[1] # job.overlaySize[1] /\ job.size[2] # job.overlaySize[2])
        /\ res.size = job.overlaySize

\* C30: an animated WEBP is transcoded to APNG only when the configuration
\* enables it: never with both options off, and with only
\* convertWebpToApngCoversBanners on for Cover and Banner and no other art
\* style.
C30_TranscodeOnlyWhenEnabled ==
    Transcoded => TranscodeConfigured(job)

\* What holds of the code: a transcode is configured, or the art style is
\* Banner, whose images are transcoded whatever the options.
C30_TranscodeEnabledOrBanner ==
    Transcoded => (TranscodeConfigured(job) \/ job.nameExt = ".banner")

\* The legacy backups among the files fls, and the overrides that apply to
\* unit u among them.
LegacyOf(fls) == {p \in DOMAIN fls : p.dir = "old"}
OverrideApplies(u, fls) ==
    \E p \in DOMAIN fls :
        \/ p.dir = "games id"
        \/ p.dir = "games name" /\ units[u].Name # ""
\* A unit of some run completed that started with a legacy backup and no
\* override.
Migrated(u, i) ==
    /\ log[u][i].finished
    /\ LegacyOf(log[u][i].start) # {}
    /\ ~OverrideApplies(u, log[u][i].start)

OneBackup(e) ==
    /\ Cardinality(DOMAIN Backups(e.end)) = 1
    /\ \A b \in DOMAIN Backups(e.end) :
         /\ CanonPath(b.ext) \in DOMAIN e.end
         /\ b.hash = Sha256(e.end[CanonPath(b.ext)])
         /\ e.end[b] = e.fed

\* C28: after every completed unit that found an image, originals/ holds
\* exactly one backup of the unit; the hash in its name is the sha256 of the
\* bytes at the canonical path, and its content is the clean image of the
\* run.
C28_ExactlyOneBackup ==
    CompleteRuns =>
        \A u \in DOMAIN log : \A i \in DOMAIN log[u] :
            (log[u][i].finished /\ log[u][i].applied) => OneBackup(log[u][i])

\* What holds of the code: the same for the first run over a grid directory
\* without backups.
C28_OneBackupAfterFirstRun ==
    CompleteRuns =>
        \A u \in DOMAIN log :
            (Len(log[u]) >= 1 /\ log[u][1].finished /\ log[u][1].applied)
                => OneBackup(log[u][1])

\* Both orders of the units ran to the end and no filesystem operation
\* failed.
OrdersCompared == first.compared /\ pc = "done" /\ faults = 0
\* The providers gave the same answer to the same request for the same unit
\* in both orders.
SameAnswers ==
    \A u \in DOMAIN memo : \A i \in DOMAIN first.memo[u], k \in DOMAIN memo[u] :
        first.memo[u][i].kind = memo[u][k].kind
            => first.memo[u][i].answer = memo[u][k].answer

\* C29: the result of a run does not depend on the order in which the units
\* are processed: with the same provider answers, the files of every unit
\* and the units reported as not found are the same after both orders.
C29_OrderIndependent ==
    (OrdersCompared /\ SameAnswers) =>
        /\ fs = first.fs
        /\ notFounds = first.notFounds

\* What holds of the code: the same when SteamGridDB refused the API key in
\* neither order, so that no run cleared it.
C29_OrderIndependentWithKey ==
    (/\ OrdersCompared /\ SameAnswers
     /\ steamGridDBApiKey = cfg.steamGridDBApiKey
     /\ first.steamGridDBApiKey = cfg.steamGridDBApiKey) =>
        /\ fs = first.fs
        /\ notFounds = first.notFounds

=============================================================================
